---- MODULE Spec2Model ----
(***************************************************************************)
(* A model of EPA_API_pull_ghg_data.py: the EPAQuery class (URL            *)
(* construction and fetch) and the main script (five fetches, four inner   *)
(* merges, a column subset and a print of the first rows).                 *)
(*                                                                         *)
(* URLs are TLA+ strings; a dataframe is a record                          *)
(*   [cols |-> sequence of column names, rows |-> sequence of rows]        *)
(* where a row is a function from the column names to values.              *)
(***************************************************************************)
EXTENDS Integers, Sequences, FiniteSets, TLC

VARIABLES
    pc,                   \* position in main, or "api" for a direct caller of EPAQuery
    idx,                  \* position of the for loop in table_names
    table_objects,        \* table name -> EPAQuery object
    call,                 \* arguments of the last construct_query_URL call
    query,                \* the query URL last returned
    epa_dfs,              \* table name -> dataframe
    master_df,            \* the merged dataframe
    master_df_subsetted,  \* the column subset of master_df
    stdout,               \* what print has written
    err,                  \* the uncaught exception that ended main, if any
    log                   \* history: the operations performed so far, in order

vars == <<pc, idx, table_objects, call, query, epa_dfs, master_df,
          master_df_subsetted, stdout, err, log>>

(***************************************************************************)
(* Optional values: Python's None and a supplied value.                    *)
(***************************************************************************)
None == [given |-> FALSE]

Some(v) == [given |-> TRUE, val |-> v]

(***************************************************************************)
(* class EPAQuery                                                          *)
(***************************************************************************)
\* __init__
EPAQuery(table_name) ==
    [base_url |-> "https://data.epa.gov/efservice/",
     table_name |-> table_name,
     desired_output_format |-> "CSV"]

\* construct_query_URL with the county qualifier appended before the state qualifier
construct_query_URL_county_first(self, desired_state, desired_county, desired_area_code, desired_year, rows_to_include) ==
    LET q0 == self.base_url \o self.table_name \o "/"
        q1 == IF desired_county # None
              THEN q0 \o "county_name/" \o desired_county.val \o "/" ELSE q0
        q2 == IF desired_state # None
              THEN q1 \o "state_abbr/" \o desired_state.val \o "/" ELSE q1
        q3 == IF desired_area_code # None
              THEN q2 \o "zip_code/" \o desired_area_code.val \o "/" ELSE q2
        q4 == IF desired_year # None
              THEN q3 \o "reporting_year/" \o desired_year.val \o "/" ELSE q3
    IN  IF rows_to_include # None
        THEN q4 \o self.desired_output_format \o "/rows/" \o rows_to_include.val
        ELSE q4 \o self.desired_output_format

\* construct_query_URL with the row qualifier appended before the output format
construct_query_URL_rows_first(self, desired_state, desired_county, desired_area_code, desired_year, rows_to_include) ==
    LET q0 == self.base_url \o self.table_name \o "/"
        q1 == IF desired_state # None
              THEN q0 \o "state_abbr/" \o desired_state.val \o "/" ELSE q0
        q2 == IF desired_county # None
              THEN q1 \o "county_name/" \o desired_county.val \o "/" ELSE q1
        q3 == IF desired_area_code # None
              THEN q2 \o "zip_code/" \o desired_area_code.val \o "/" ELSE q2
        q4 == IF desired_year # None
              THEN q3 \o "reporting_year/" \o desired_year.val \o "/" ELSE q3
    IN  IF rows_to_include # None
        THEN q4 \o "rows/" \o rows_to_include.val \o "/" \o self.desired_output_format
        ELSE q4 \o self.desired_output_format

\* construct_query_URL: the statements of the method, one LET per assignment
construct_query_URL(self, desired_state, desired_county, desired_area_code, desired_year, rows_to_include) ==
    LET query_base == self.base_url
        q0 == query_base \o self.table_name \o "/"
        q1 == IF desired_state # None
              THEN q0 \o "state_abbr/" \o desired_state.val \o "/" ELSE q0
        q2 == IF desired_county # None
              THEN q1 \o "county_name/" \o desired_county.val \o "/" ELSE q1
        q3 == IF desired_area_code # None
              THEN q2 \o "zip_code/" \o desired_area_code.val \o "/" ELSE q2
        q4 == IF desired_year # None
              THEN q3 \o "reporting_year/" \o desired_year.val \o "/" ELSE q3
        q5 == q4 \o self.desired_output_format
        q6 == IF rows_to_include # None
              THEN q5 \o "/rows/" \o rows_to_include.val ELSE q5
    IN  q6

\* the arguments of a call, and the defaults of the signature
Args(s, c, a, y, r) ==
    [desired_state |-> s, desired_county |-> c, desired_area_code |-> a,
     desired_year |-> y, rows_to_include |-> r]

DefaultArgs == Args(None, None, None, None, None)

ConstructWith(self, args) ==
    construct_query_URL(self, args.desired_state, args.desired_county,
                        args.desired_area_code, args.desired_year,
                        args.rows_to_include)

(***************************************************************************)
(* A caller that uses EPAQuery directly: the inputs of construct_query_URL *)
(***************************************************************************)
URLTableNames == {"T", "PUB_DIM_GHG"}

StateInputs == {None, Some("OH"), Some("CSV")}

CountyInputs == {None, Some("X"), Some("state_abbr/OH")}

AreaCodeInputs == {None, Some("44101"), Some("reporting_year")}

YearInputs == {None, Some("2019"), Some("reporting_year")}

RowsInputs == {None, Some("1:19")}

NoDataFrame == [cols |-> <<>>, rows |-> <<>>, unset |-> TRUE]

NoError == [kind |-> "none", at |-> "none"]

InitURL ==
    /\ pc = "api"
    /\ idx = 0
    /\ \E t \in URLTableNames : table_objects = (t :> EPAQuery(t))
    /\ call = None
    /\ query = None
    /\ epa_dfs = <<>>
    /\ master_df = NoDataFrame
    /\ master_df_subsetted = NoDataFrame
    /\ stdout = <<>>
    /\ err = NoError
    /\ log = <<>>

CallConstruct ==
    /\ pc = "api"
    /\ \E t \in DOMAIN table_objects :
       \E s \in StateInputs, c \in CountyInputs, a \in AreaCodeInputs,
          y \in YearInputs, r \in RowsInputs :
          /\ call' = Some([table_name |-> t, args |-> Args(s, c, a, y, r)])
          /\ query' = Some(ConstructWith(table_objects[t], Args(s, c, a, y, r)))
    /\ UNCHANGED <<pc, idx, table_objects, epa_dfs, master_df,
                   master_df_subsetted, stdout, err, log>>

NextURL == CallConstruct

SpecURL == InitURL /\ [][NextURL]_vars

(***************************************************************************)
(* Dataframes                                                              *)
(***************************************************************************)
Range(f) == {f[x] : x \in DOMAIN f}

Min(a, b) == IF a <= b THEN a ELSE b

\* row r restricted to the columns of header
Restrict(r, header) == [c \in Range(header) |-> r[c]]

\* all sequences over S of length at most n
SeqsUpTo(S, n) == UNION {[1..k -> S] : k \in 0..n}

\* header without column c
Without(header, c) == SelectSeq(header, LAMBDA x : x # c)

(***************************************************************************)
(* The tables of main and their columns                                    *)
(***************************************************************************)
\* table_names with the two dimension tables SECTOR and SUBSECTOR exchanged
table_names_exchanged ==
    <<"PUB_DIM_FACILITY", "PUB_FACTS_SECTOR_GHG_EMISSION",
      "PUB_DIM_SUBSECTOR", "PUB_DIM_SECTOR", "PUB_DIM_GHG">>

table_names ==
    <<"PUB_DIM_FACILITY", "PUB_FACTS_SECTOR_GHG_EMISSION",
      "PUB_DIM_SECTOR", "PUB_DIM_SUBSECTOR", "PUB_DIM_GHG">>

FacilityColumns ==
    <<"PUB_DIM_FACILITY.FACILITY_ID", "PUB_DIM_FACILITY.LATITUDE",
      "PUB_DIM_FACILITY.LONGITUDE", "PUB_DIM_FACILITY.CITY",
      "PUB_DIM_FACILITY.STATE", "PUB_DIM_FACILITY.ZIP",
      "PUB_DIM_FACILITY.COUNTY", "PUB_DIM_FACILITY.ADDRESS1",
      "PUB_DIM_FACILITY.YEAR", "PUB_DIM_FACILITY.PARENT_COMPANY">>

EmissionColumns ==
    <<"PUB_FACTS_SECTOR_GHG_EMISSION.FACILITY_ID",
      "PUB_FACTS_SECTOR_GHG_EMISSION.YEAR",
      "PUB_FACTS_SECTOR_GHG_EMISSION.SECTOR_ID",
      "PUB_FACTS_SECTOR_GHG_EMISSION.SUBSECTOR_ID",
      "PUB_FACTS_SECTOR_GHG_EMISSION.GAS_ID",
      "PUB_FACTS_SECTOR_GHG_EMISSION.CO2E_EMISSION">>

SectorColumns == <<"PUB_DIM_SECTOR.SECTOR_ID", "PUB_DIM_SECTOR.SECTOR_NAME">>

SubsectorColumns ==
    <<"PUB_DIM_SUBSECTOR.SUBSECTOR_ID", "PUB_DIM_SUBSECTOR.SUBSECTOR_DESC">>

GhgColumns == <<"PUB_DIM_GHG.GAS_ID", "PUB_DIM_GHG.GAS_CODE">>

\* the column list of the subset statement
SubsetColumns ==
    <<"PUB_DIM_FACILITY.LATITUDE", "PUB_DIM_FACILITY.LONGITUDE",
      "PUB_DIM_FACILITY.CITY", "PUB_DIM_FACILITY.STATE",
      "PUB_DIM_FACILITY.ZIP", "PUB_DIM_FACILITY.COUNTY",
      "PUB_DIM_FACILITY.ADDRESS1", "PUB_DIM_FACILITY.YEAR",
      "PUB_DIM_FACILITY.PARENT_COMPANY", "PUB_DIM_SECTOR.SECTOR_NAME",
      "PUB_DIM_SUBSECTOR.SUBSECTOR_DESC", "PUB_DIM_GHG.GAS_CODE",
      "PUB_FACTS_SECTOR_GHG_EMISSION.CO2E_EMISSION">>

\* the argument of head()
HeadRows == 10

(***************************************************************************)
(* The key columns of the four merges                                      *)
(***************************************************************************)
Merge1LeftOn == <<"PUB_DIM_FACILITY.FACILITY_ID", "PUB_DIM_FACILITY.YEAR">>

Merge1RightOn ==
    <<"PUB_FACTS_SECTOR_GHG_EMISSION.FACILITY_ID",
      "PUB_FACTS_SECTOR_GHG_EMISSION.YEAR">>

Merge2LeftOn == <<"PUB_FACTS_SECTOR_GHG_EMISSION.SECTOR_ID">>

Merge2RightOn == <<"PUB_DIM_SECTOR.SECTOR_ID">>

Merge3LeftOn == <<"PUB_FACTS_SECTOR_GHG_EMISSION.SUBSECTOR_ID">>

Merge3RightOn == <<"PUB_DIM_SUBSECTOR.SUBSECTOR_ID">>

Merge4LeftOn == <<"PUB_FACTS_SECTOR_GHG_EMISSION.GAS_ID">>

Merge4RightOn == <<"PUB_DIM_GHG.GAS_ID">>

(***************************************************************************)
(* pandas operations used by main                                          *)
(***************************************************************************)
DataFrame(cols, rows) == [cols |-> cols, rows |-> rows]

\* pd.merge raises KeyError unless every key column is a column of its side
HasColumns(df, on) == \A j \in DOMAIN on : on[j] \in Range(df.cols)

\* KeysMatch that compares the first key column only
KeysMatch_first_key(l, r, left_on, right_on) == l[left_on[1]] = r[right_on[1]]

KeysMatch(l, r, left_on, right_on) ==
    \A j \in DOMAIN left_on : l[left_on[j]] = r[right_on[j]]

\* Merge as how='left': a left row without a match is kept, its right columns
\* filled with a missing value
Merge_left_outer(left, right, left_on, right_on) ==
    LET Matches(l) == SelectSeq(right.rows, LAMBDA r : KeysMatch(l, r, left_on, right_on))
        Filler == [c \in Range(right.cols) |-> 0 - 1]
        RowsOf(l) == IF Matches(l) = <<>> THEN <<l @@ Filler>>
                     ELSE [k \in 1..Len(Matches(l)) |-> l @@ Matches(l)[k]]
        Cat[k \in 0..Len(left.rows)] ==
            IF k = 0 THEN <<>> ELSE Cat[k - 1] \o RowsOf(left.rows[k])
    IN  [cols |-> left.cols \o right.cols, rows |-> Cat[Len(left.rows)]]

\* Merge that pairs a left row with its first matching right row only
Merge_first_match(left, right, left_on, right_on) ==
    LET Matches(l) == SelectSeq(right.rows, LAMBDA r : KeysMatch(l, r, left_on, right_on))
        matched == SelectSeq(left.rows, LAMBDA l : Matches(l) # <<>>)
    IN  [cols |-> left.cols \o right.cols,
         rows |-> [k \in 1..Len(matched) |-> matched[k] @@ Matches(matched[k])[1]]]

\* pd.merge(left, right, left_on=..., right_on=..., how='inner'): one row for
\* every pair (left row, right row) whose key values are equal, in the order
\* of the left rows and, for one left row, of the right rows; the columns of
\* left followed by the columns of right
Merge(left, right, left_on, right_on) ==
    LET m == Len(left.rows)
        n == Len(right.rows)
        pairs == [k \in 1..(m * n) |-> <<((k - 1) \div n) + 1, ((k - 1) % n) + 1>>]
        kept == SelectSeq(pairs, LAMBDA p :
                    KeysMatch(left.rows[p[1]], right.rows[p[2]], left_on, right_on))
    IN  DataFrame(left.cols \o right.cols,
                  [k \in 1..Len(kept) |->
                      left.rows[kept[k][1]] @@ right.rows[kept[k][2]]])

\* df[[columns]]: the listed columns, every row, in the row order of df
Subset(df, columns) ==
    DataFrame(columns, [k \in 1..Len(df.rows) |-> Restrict(df.rows[k], columns)])

\* head that returns every row
HeadOf_all(df, n) == df

\* df.head(n)
HeadOf(df, n) == DataFrame(df.cols, SubSeq(df.rows, 1, Min(n, Len(df.rows))))

\* pd.read_csv(..., error_bad_lines=False): the header row names the columns,
\* a line with more fields than the header is dropped
ReadCsv(body) ==
    DataFrame(body.header,
              LET good == SelectSeq(body.lines, LAMBDA ln : ~ln.surplus)
              IN  [k \in 1..Len(good) |-> good[k].fields])

(***************************************************************************)
(* The remote service: the CSV bodies a GET can return                     *)
(***************************************************************************)
\* most lines of a body of the facility or emission table, lines in any order
MaxRows == 2

\* most lines of a long body of the emission table
MaxListingRows == 9

FacilityRow(fid, yr) ==
    [c \in Range(FacilityColumns) |->
        CASE c = "PUB_DIM_FACILITY.FACILITY_ID" -> fid
          [] c = "PUB_DIM_FACILITY.YEAR" -> yr
          [] OTHER -> <<c, fid, yr>>]

EmissionRow(fid, yr, sector, subsector, gas, co2e) ==
    ("PUB_FACTS_SECTOR_GHG_EMISSION.FACILITY_ID" :> fid)
    @@ ("PUB_FACTS_SECTOR_GHG_EMISSION.YEAR" :> yr)
    @@ ("PUB_FACTS_SECTOR_GHG_EMISSION.SECTOR_ID" :> sector)
    @@ ("PUB_FACTS_SECTOR_GHG_EMISSION.SUBSECTOR_ID" :> subsector)
    @@ ("PUB_FACTS_SECTOR_GHG_EMISSION.GAS_ID" :> gas)
    @@ ("PUB_FACTS_SECTOR_GHG_EMISSION.CO2E_EMISSION" :> co2e)

SectorRow(id) ==
    ("PUB_DIM_SECTOR.SECTOR_ID" :> id) @@ ("PUB_DIM_SECTOR.SECTOR_NAME" :> <<"sector", id>>)

SubsectorRow(id) ==
    ("PUB_DIM_SUBSECTOR.SUBSECTOR_ID" :> id)
    @@ ("PUB_DIM_SUBSECTOR.SUBSECTOR_DESC" :> <<"subsector", id>>)

GhgRow(id) == ("PUB_DIM_GHG.GAS_ID" :> id) @@ ("PUB_DIM_GHG.GAS_CODE" :> <<"gas", id>>)

FacilityRows == <<FacilityRow(1, 2018), FacilityRow(2, 2018)>>

EmissionRows == <<EmissionRow(1, 2018, 1, 1, 1, 10), EmissionRow(2, 2018, 2, 1, 1, 20)>>

\* line k of a long emission body: facility 1, every third line of year 2019
ListingRow(k) == EmissionRow(1, IF k % 3 = 0 THEN 2019 ELSE 2018, 1, 1, 1, 100 + k)

SectorRows == <<SectorRow(1), SectorRow(2)>>

SubsectorRows == <<SubsectorRow(1)>>

GhgRows == <<GhgRow(1)>>

\* a CSV line with as many fields as the header, and one with more
Line(fields) == [fields |-> fields, surplus |-> FALSE]

SurplusLine(fields) == [fields |-> fields, surplus |-> TRUE]

Body(header, lines) == [header |-> header, lines |-> lines]

\* bodies with the full header: every sequence of at most n lines, each a row
\* of rows or a line with surplus fields
FullBodies(header, rows, n) ==
    {Body(header, ls) :
        ls \in SeqsUpTo({Line(r) : r \in Range(rows)} \cup {SurplusLine(rows[1])}, n)}

\* the lines of seq at the positions of I, in the order of seq
Pick(seq, I) ==
    LET at == SelectSeq([k \in 1..Len(seq) |-> k], LAMBDA k : k \in I)
    IN  [n \in 1..Len(at) |-> seq[at[n]]]

\* bodies of a dimension table, one line for an id at most: any selection of
\* the rows of the table, with or without a line with surplus fields
DimensionBodies(header, rows) ==
    LET lines == <<SurplusLine(rows[1])>> \o [k \in 1..Len(rows) |-> Line(rows[k])]
    IN  {Body(header, Pick(lines, I)) : I \in SUBSET (1..Len(lines))}

\* bodies whose header lacks one of the columns of dropped: one line
ShortBodies(header, rows, dropped) ==
    {Body(Without(header, c), <<Line(Restrict(rows[1], Without(header, c)))>>) :
        c \in dropped}

\* long bodies of the emission table: the first k lines of the listing
ListingBodies ==
    {Body(EmissionColumns, [n \in 1..k |-> Line(ListingRow(n))]) : k \in 1..MaxListingRows}

Bodies(table_name) ==
    CASE table_name = "PUB_DIM_FACILITY" ->
            FullBodies(FacilityColumns, FacilityRows, MaxRows)
            \cup ShortBodies(FacilityColumns, FacilityRows,
                             {"PUB_DIM_FACILITY.FACILITY_ID", "PUB_DIM_FACILITY.LATITUDE"})
      [] table_name = "PUB_FACTS_SECTOR_GHG_EMISSION" ->
            FullBodies(EmissionColumns, EmissionRows, MaxRows)
            \cup ListingBodies
            \cup ShortBodies(EmissionColumns, EmissionRows,
                             {"PUB_FACTS_SECTOR_GHG_EMISSION.YEAR",
                              "PUB_FACTS_SECTOR_GHG_EMISSION.SECTOR_ID",
                              "PUB_FACTS_SECTOR_GHG_EMISSION.SUBSECTOR_ID",
                              "PUB_FACTS_SECTOR_GHG_EMISSION.GAS_ID"})
      [] table_name = "PUB_DIM_SECTOR" ->
            DimensionBodies(SectorColumns, SectorRows)
            \cup ShortBodies(SectorColumns, SectorRows, {"PUB_DIM_SECTOR.SECTOR_ID"})
      [] table_name = "PUB_DIM_SUBSECTOR" ->
            DimensionBodies(SubsectorColumns, SubsectorRows)
            \cup ShortBodies(SubsectorColumns, SubsectorRows,
                             {"PUB_DIM_SUBSECTOR.SUBSECTOR_ID"})
      [] table_name = "PUB_DIM_GHG" ->
            DimensionBodies(GhgColumns, GhgRows)
            \cup ShortBodies(GhgColumns, GhgRows,
                             {"PUB_DIM_GHG.GAS_ID", "PUB_DIM_GHG.GAS_CODE"})

(***************************************************************************)
(* main                                                                    *)
(***************************************************************************)
Event(op, arg) == [op |-> op, arg |-> arg]

Raise(kind, at) == [kind |-> kind, at |-> at]

Init ==
    /\ pc = "new"
    /\ idx = 1
    /\ table_objects = <<>>
    /\ call = None
    /\ query = None
    /\ epa_dfs = <<>>
    /\ master_df = NoDataFrame
    /\ master_df_subsetted = NoDataFrame
    /\ stdout = <<>>
    /\ err = NoError
    /\ log = <<>>

\* table_objects[table_name]=EPAQuery(table_name)
NewObject ==
    /\ pc = "new"
    /\ table_objects' = (table_names[idx] :> EPAQuery(table_names[idx])) @@ table_objects
    /\ pc' = "construct"
    /\ UNCHANGED <<idx, call, query, epa_dfs, master_df, master_df_subsetted,
                   stdout, err, log>>

\* query=table_objects[table_name].construct_query_URL()
BuildQuery ==
    /\ pc = "construct"
    /\ call' = Some([table_name |-> table_names[idx], args |-> DefaultArgs])
    /\ query' = Some(ConstructWith(table_objects[table_names[idx]], DefaultArgs))
    /\ log' = Append(log, Event("query", table_names[idx]))
    /\ pc' = "read"
    /\ UNCHANGED <<idx, table_objects, epa_dfs, master_df, master_df_subsetted,
                   stdout, err>>

\* where main goes after the loop body for table_names[i]
AfterRead(i) == IF i = Len(table_names) THEN "merge1" ELSE "new"

\* epa_dfs[table_name]=table_objects[table_name].read_query_into_pandas(query):
\* the GET returns a body and read_csv parses it
ReadOk ==
    /\ pc = "read"
    /\ \E body \in Bodies(table_names[idx]) :
          epa_dfs' = (table_names[idx] :> ReadCsv(body)) @@ epa_dfs
    /\ log' = Append(log, Event("read", query.val))
    /\ pc' = AfterRead(idx)
    /\ idx' = idx + 1
    /\ UNCHANGED <<table_objects, call, query, master_df, master_df_subsetted,
                   stdout, err>>

\* a failed read replaced by an empty dataframe, the loop going on
ReadRaises_fallback ==
    /\ pc = "read"
    /\ epa_dfs' = (table_names[idx] :> [cols |-> <<>>, rows |-> <<>>]) @@ epa_dfs
    /\ log' = Append(log, Event("read_raised", query.val))
    /\ pc' = AfterRead(idx)
    /\ idx' = idx + 1
    /\ UNCHANGED <<table_objects, call, query, master_df, master_df_subsetted,
                   stdout, err>>

\* requests.get, decode or read_csv raises; nothing in main catches it
ReadRaises ==
    /\ pc = "read"
    /\ err' = Raise("FetchError", table_names[idx])
    /\ log' = Append(log, Event("read_raised", query.val))
    /\ pc' = "error"
    /\ UNCHANGED <<idx, table_objects, call, query, epa_dfs, master_df,
                   master_df_subsetted, stdout>>

\* a merge statement of main: master_df=pd.merge(left, right, left_on, right_on)
MergeOk(at, next, left, right, left_on, right_on) ==
    /\ pc = at
    /\ HasColumns(left, left_on) /\ HasColumns(right, right_on)
    /\ master_df' = Merge(left, right, left_on, right_on)
    /\ log' = Append(log, Event("merge", at))
    /\ pc' = next
    /\ UNCHANGED <<idx, table_objects, call, query, epa_dfs, master_df_subsetted,
                   stdout, err>>

\* a merge on a missing key column that yields an empty dataframe and goes on
MergeRaises_silent(at, left, right, left_on, right_on) ==
    /\ pc = at
    /\ ~(HasColumns(left, left_on) /\ HasColumns(right, right_on))
    /\ master_df' = [cols |-> left.cols \o right.cols, rows |-> <<>>]
    /\ log' = Append(log, Event("merge", at))
    /\ pc' = (CASE at = "merge1" -> "merge2" [] at = "merge2" -> "merge3"
               [] at = "merge3" -> "merge4" [] OTHER -> "subset")
    /\ UNCHANGED <<idx, table_objects, call, query, epa_dfs, master_df_subsetted,
                   stdout, err>>

\* pd.merge raises KeyError for a key column that is not there
MergeRaises(at, left, right, left_on, right_on) ==
    /\ pc = at
    /\ ~(HasColumns(left, left_on) /\ HasColumns(right, right_on))
    /\ err' = Raise("KeyError", at)
    /\ log' = Append(log, Event("merge_raised", at))
    /\ pc' = "error"
    /\ UNCHANGED <<idx, table_objects, call, query, epa_dfs, master_df,
                   master_df_subsetted, stdout>>

Merge1Ok ==
    MergeOk("merge1", "merge2", epa_dfs["PUB_DIM_FACILITY"],
            epa_dfs["PUB_FACTS_SECTOR_GHG_EMISSION"], Merge1LeftOn, Merge1RightOn)

Merge1Raises ==
    MergeRaises("merge1", epa_dfs["PUB_DIM_FACILITY"],
                epa_dfs["PUB_FACTS_SECTOR_GHG_EMISSION"], Merge1LeftOn, Merge1RightOn)

Merge2Ok ==
    MergeOk("merge2", "merge3", master_df, epa_dfs["PUB_DIM_SECTOR"],
            Merge2LeftOn, Merge2RightOn)

Merge2Raises ==
    MergeRaises("merge2", master_df, epa_dfs["PUB_DIM_SECTOR"],
                Merge2LeftOn, Merge2RightOn)

Merge3Ok ==
    MergeOk("merge3", "merge4", master_df, epa_dfs["PUB_DIM_SUBSECTOR"],
            Merge3LeftOn, Merge3RightOn)

Merge3Raises ==
    MergeRaises("merge3", master_df, epa_dfs["PUB_DIM_SUBSECTOR"],
                Merge3LeftOn, Merge3RightOn)

Merge4Ok ==
    MergeOk("merge4", "subset", master_df, epa_dfs["PUB_DIM_GHG"],
            Merge4LeftOn, Merge4RightOn)

Merge4Raises ==
    MergeRaises("merge4", master_df, epa_dfs["PUB_DIM_GHG"],
                Merge4LeftOn, Merge4RightOn)

\* master_df_subsetted=master_df[[...]]
SubsetOk ==
    /\ pc = "subset"
    /\ HasColumns(master_df, SubsetColumns)
    /\ master_df_subsetted' = Subset(master_df, SubsetColumns)
    /\ log' = Append(log, Event("subset", "master_df"))
    /\ pc' = "print"
    /\ UNCHANGED <<idx, table_objects, call, query, epa_dfs, master_df, stdout, err>>

\* indexing with a list that names a missing column raises KeyError
SubsetRaises ==
    /\ pc = "subset"
    /\ ~HasColumns(master_df, SubsetColumns)
    /\ err' = Raise("KeyError", "subset")
    /\ log' = Append(log, Event("subset_raised", "master_df"))
    /\ pc' = "error"
    /\ UNCHANGED <<idx, table_objects, call, query, epa_dfs, master_df,
                   master_df_subsetted, stdout>>

\* print(master_df_subsetted.head(10))
PrintHead ==
    /\ pc = "print"
    /\ stdout' = Append(stdout, HeadOf(master_df_subsetted, HeadRows))
    /\ log' = Append(log, Event("print", "master_df_subsetted"))
    /\ pc' = "done"
    /\ UNCHANGED <<idx, table_objects, call, query, epa_dfs, master_df,
                   master_df_subsetted, err>>

Next ==
    \/ NewObject
    \/ BuildQuery
    \/ ReadOk
    \/ ReadRaises
    \/ Merge1Ok
    \/ Merge1Raises
    \/ Merge2Ok
    \/ Merge2Raises
    \/ Merge3Ok
    \/ Merge3Raises
    \/ Merge4Ok
    \/ Merge4Raises
    \/ SubsetOk
    \/ SubsetRaises
    \/ PrintHead

Spec == Init /\ [][Next]_vars

(***************************************************************************)
(* Properties of main (checked under Spec)                                 *)
(***************************************************************************)
ColumnsOf(table_name) ==
    CASE table_name = "PUB_DIM_FACILITY" -> FacilityColumns
      [] table_name = "PUB_FACTS_SECTOR_GHG_EMISSION" -> EmissionColumns
      [] table_name = "PUB_DIM_SECTOR" -> SectorColumns
      [] table_name = "PUB_DIM_SUBSECTOR" -> SubsectorColumns
      [] table_name = "PUB_DIM_GHG" -> GhgColumns

\* the key columns the merges read from a fetched table
KeyColumnsOf(table_name) ==
    CASE table_name = "PUB_DIM_FACILITY" -> Range(Merge1LeftOn)
      [] table_name = "PUB_FACTS_SECTOR_GHG_EMISSION" ->
            Range(Merge1RightOn) \cup Range(Merge2LeftOn) \cup Range(Merge3LeftOn)
            \cup Range(Merge4LeftOn)
      [] table_name = "PUB_DIM_SECTOR" -> Range(Merge2RightOn)
      [] table_name = "PUB_DIM_SUBSECTOR" -> Range(Merge3RightOn)
      [] table_name = "PUB_DIM_GHG" -> Range(Merge4RightOn)

AllFetched == DOMAIN epa_dfs = Range(table_names)

\* every fetched table has the key columns the merges read from it
KeyColumnsPresent ==
    \A t \in DOMAIN epa_dfs : KeyColumnsOf(t) \subseteq Range(epa_dfs[t].cols)

\* every column of the subset statement is a column of some fetched table
SubsetColumnsPresent ==
    \A c \in Range(SubsetColumns) : \E t \in DOMAIN epa_dfs : c \in Range(epa_dfs[t].cols)

MergePcs == <<"merge1", "merge2", "merge3", "merge4">>

AfterMerge == <<"merge2", "merge3", "merge4", "subset">>

LeftOf(k) == IF k = 1 THEN epa_dfs["PUB_DIM_FACILITY"] ELSE master_df

RightOf(k) == epa_dfs[table_names[k + 1]]

LeftOnOf(k) ==
    CASE k = 1 -> Merge1LeftOn [] k = 2 -> Merge2LeftOn
      [] k = 3 -> Merge3LeftOn [] k = 4 -> Merge4LeftOn

RightOnOf(k) ==
    CASE k = 1 -> Merge1RightOn [] k = 2 -> Merge2RightOn
      [] k = 3 -> Merge3RightOn [] k = 4 -> Merge4RightOn

KeyMissingAt(k) ==
    /\ pc = MergePcs[k]
    /\ ~(HasColumns(LeftOf(k), LeftOnOf(k)) /\ HasColumns(RightOf(k), RightOnOf(k)))

\* C3: a merge step reached with an input that lacks one of its key columns,
\* on the left or on the right, ends the run in a KeyError at that step: no
\* later merge, no subset and no print follow, and no dataframe is produced.
C3_MissingKeyRaises ==
    [][/\ \A k \in 1..4 :
             KeyMissingAt(k) =>
                /\ pc' = "error"
                /\ err' = Raise("KeyError", MergePcs[k])
                /\ master_df' = master_df
                /\ master_df_subsetted' = NoDataFrame
                /\ stdout' = <<>>
       /\ pc # "error"]_vars

\* the emission table lacks SECTOR_ID, the left key of the second merge
C3_Witness ==
    /\ pc = "error"
    /\ err = Raise("KeyError", "merge2")
    /\ "PUB_FACTS_SECTOR_GHG_EMISSION.SECTOR_ID"
          \notin Range(epa_dfs["PUB_FACTS_SECTOR_GHG_EMISSION"].cols)
    /\ "PUB_DIM_SECTOR.SECTOR_ID" \in Range(epa_dfs["PUB_DIM_SECTOR"].cols)
    /\ log[Len(log)] = Event("merge_raised", "merge2")
    /\ stdout = <<>>

\* C4: a fetch that fails ends main at that fetch: it is the last operation,
\* the table was read once, no later table is queried or read, no merge is
\* made and nothing is printed.
C4_FetchFailureAborts ==
    \A i \in DOMAIN log :
        log[i].op = "read_raised" =>
            /\ i = Len(log)
            /\ pc = "error"
            /\ err = Raise("FetchError", table_names[idx])
            /\ log[i].arg = query.val
            /\ Cardinality({j \in DOMAIN log : log[j].arg = query.val}) = 1
            /\ DOMAIN epa_dfs = {table_names[j] : j \in 1..(idx - 1)}
            /\ DOMAIN table_objects = {table_names[j] : j \in 1..idx}
            /\ \A j \in DOMAIN log : log[j].op \in {"query", "read", "read_raised"}
            /\ master_df = NoDataFrame
            /\ master_df_subsetted = NoDataFrame
            /\ stdout = <<>>

\* the third fetch fails after two tables were read
C4_Witness ==
    /\ pc = "error"
    /\ err = Raise("FetchError", "PUB_DIM_SECTOR")
    /\ DOMAIN epa_dfs = {"PUB_DIM_FACILITY", "PUB_FACTS_SECTOR_GHG_EMISSION"}
    /\ epa_dfs["PUB_DIM_FACILITY"].rows # <<>>
    /\ log[Len(log)].op = "read_raised"
    /\ stdout = <<>>

\* C5: on a run that ends without error the output is one dataframe: the
\* first min(10, n) rows of master_df (n its row count), in its row order,
\* each with exactly the 13 columns of the subset; nothing is printed before.
C5_PrintedHead ==
    /\ pc # "done" => stdout = <<>>
    /\ pc = "done" =>
          /\ Len(stdout) = 1
          /\ stdout[1].cols = SubsetColumns
          /\ Len(SubsetColumns) = 13
          /\ Cardinality(Range(SubsetColumns)) = 13
          /\ Len(stdout[1].rows) = Min(10, Len(master_df.rows))
          /\ \A k \in DOMAIN stdout[1].rows :
                /\ DOMAIN stdout[1].rows[k] = Range(SubsetColumns)
                /\ \A c \in Range(SubsetColumns) :
                      stdout[1].rows[k][c] = master_df.rows[k][c]

\* more than ten rows were joined and ten are printed
C5_Witness ==
    /\ pc = "done"
    /\ Len(master_df.rows) > 10
    /\ Len(stdout[1].rows) = 10
    /\ Cardinality(Range(master_df.cols)) > 13

\* the chains of the fetched tables: a facility row, an emission row, a sector
\* row, a subsector row and a gas row (by position) whose keys agree
Chains ==
    LET F == epa_dfs["PUB_DIM_FACILITY"].rows
        E == epa_dfs["PUB_FACTS_SECTOR_GHG_EMISSION"].rows
        S == epa_dfs["PUB_DIM_SECTOR"].rows
        U == epa_dfs["PUB_DIM_SUBSECTOR"].rows
        G == epa_dfs["PUB_DIM_GHG"].rows
    IN  {ch \in (DOMAIN F) \X (DOMAIN E) \X (DOMAIN S) \X (DOMAIN U) \X (DOMAIN G) :
            /\ F[ch[1]]["PUB_DIM_FACILITY.FACILITY_ID"]
                  = E[ch[2]]["PUB_FACTS_SECTOR_GHG_EMISSION.FACILITY_ID"]
            /\ F[ch[1]]["PUB_DIM_FACILITY.YEAR"]
                  = E[ch[2]]["PUB_FACTS_SECTOR_GHG_EMISSION.YEAR"]
            /\ E[ch[2]]["PUB_FACTS_SECTOR_GHG_EMISSION.SECTOR_ID"]
                  = S[ch[3]]["PUB_DIM_SECTOR.SECTOR_ID"]
            /\ E[ch[2]]["PUB_FACTS_SECTOR_GHG_EMISSION.SUBSECTOR_ID"]
                  = U[ch[4]]["PUB_DIM_SUBSECTOR.SUBSECTOR_ID"]
            /\ E[ch[2]]["PUB_FACTS_SECTOR_GHG_EMISSION.GAS_ID"]
                  = G[ch[5]]["PUB_DIM_GHG.GAS_ID"]}

\* the position in table_names of the table that column c is read from
SourceOf(c) == CHOOSE k \in 1..Len(table_names) : c \in Range(ColumnsOf(table_names[k]))

\* the values of a chain for the 13 columns of the subset
ChainRow(ch) ==
    [c \in Range(SubsetColumns) |-> epa_dfs[table_names[SourceOf(c)]].rows[ch[SourceOf(c)]][c]]

\* C6 as stated: with at least one chain in the five fetched tables, the
\* subset has exactly one row, and it holds the values of the chain.
C6_AsStated ==
    (pc \in {"print", "done"} /\ Chains # {}) =>
        /\ Len(master_df_subsetted.rows) = 1
        /\ \E ch \in Chains : master_df_subsetted.rows[1] = ChainRow(ch)

\* C6 amended: with the key columns and the 13 subset columns present, main
\* raises no error and the subset has exactly one row for every chain, with
\* the values of that chain in the 13 columns: one row exactly when the
\* tables hold one chain.
C6_OneRowPerChain ==
    (AllFetched /\ KeyColumnsPresent /\ SubsetColumnsPresent) =>
        /\ pc # "error"
        /\ pc \in {"print", "done"} =>
              /\ Len(master_df_subsetted.rows) = Cardinality(Chains)
              /\ master_df_subsetted.cols = SubsetColumns
              /\ \A ch \in Chains :
                    Cardinality({k \in DOMAIN master_df_subsetted.rows :
                                    master_df_subsetted.rows[k] = ChainRow(ch)})
                    = Cardinality({d \in Chains : ChainRow(d) = ChainRow(ch)})

\* one chain, one row, printed
C6_Witness ==
    /\ pc = "done"
    /\ AllFetched /\ KeyColumnsPresent /\ SubsetColumnsPresent
    /\ Cardinality(Chains) = 1
    /\ Len(epa_dfs["PUB_FACTS_SECTOR_GHG_EMISSION"].rows) > 1
    /\ Len(master_df_subsetted.rows) = 1
    /\ \A ch \in Chains : stdout[1].rows[1] = ChainRow(ch)

SomeTableEmpty == \E t \in DOMAIN epa_dfs : epa_dfs[t].rows = <<>>

\* an empty table has been merged into master_df
EmptyConsumed ==
    \E k \in 1..4 :
        /\ pc \in {AfterMerge[j] : j \in k..4} \cup {"print", "done"}
        /\ \/ epa_dfs[table_names[k + 1]].rows = <<>>
           \/ epa_dfs["PUB_DIM_FACILITY"].rows = <<>>

\* C7 as stated: a fetched table with zero rows, the key columns being
\* present, gives a run without any error.
C7_AsStated == (AllFetched /\ KeyColumnsPresent /\ SomeTableEmpty) => pc # "error"

\* C7 amended: when the five tables are fetched with their key columns and the
\* 13 subset columns, and one of them has zero rows, every merge from the one
\* that consumes it on yields zero rows, no error is raised, the subset has
\* zero rows and the run ends having printed a dataframe of zero rows.
C7_EmptyPropagates ==
    (AllFetched /\ KeyColumnsPresent /\ SubsetColumnsPresent /\ SomeTableEmpty) =>
        /\ pc # "error"
        /\ err = NoError
        /\ EmptyConsumed => master_df.rows = <<>>
        /\ pc \in {"print", "done"} =>
              master_df_subsetted = DataFrame(SubsetColumns, <<>>)
        /\ pc = "done" => stdout = <<DataFrame(SubsetColumns, <<>>)>>

\* the last table read is the empty one; the first merge kept rows
C7_Witness ==
    /\ pc = "done"
    /\ epa_dfs["PUB_DIM_GHG"].rows = <<>>
    /\ "PUB_DIM_GHG.GAS_ID" \in Range(epa_dfs["PUB_DIM_GHG"].cols)
    /\ \E f \in DOMAIN epa_dfs["PUB_DIM_FACILITY"].rows,
          e \in DOMAIN epa_dfs["PUB_FACTS_SECTOR_GHG_EMISSION"].rows :
          KeysMatch(epa_dfs["PUB_DIM_FACILITY"].rows[f],
                    epa_dfs["PUB_FACTS_SECTOR_GHG_EMISSION"].rows[e],
                    Merge1LeftOn, Merge1RightOn)
    /\ epa_dfs["PUB_DIM_SECTOR"].rows # <<>>
    /\ master_df.rows = <<>>
    /\ stdout = <<DataFrame(SubsetColumns, <<>>)>>

\* the operations of a complete run, in order
RunOrder ==
    <<Event("query", "PUB_DIM_FACILITY"),
      Event("read", "https://data.epa.gov/efservice/PUB_DIM_FACILITY/CSV"),
      Event("query", "PUB_FACTS_SECTOR_GHG_EMISSION"),
      Event("read", "https://data.epa.gov/efservice/PUB_FACTS_SECTOR_GHG_EMISSION/CSV"),
      Event("query", "PUB_DIM_SECTOR"),
      Event("read", "https://data.epa.gov/efservice/PUB_DIM_SECTOR/CSV"),
      Event("query", "PUB_DIM_SUBSECTOR"),
      Event("read", "https://data.epa.gov/efservice/PUB_DIM_SUBSECTOR/CSV"),
      Event("query", "PUB_DIM_GHG"),
      Event("read", "https://data.epa.gov/efservice/PUB_DIM_GHG/CSV"),
      Event("merge", "merge1"), Event("merge", "merge2"),
      Event("merge", "merge3"), Event("merge", "merge4"),
      Event("subset", "master_df"), Event("print", "master_df_subsetted")>>

\* the operation of RunOrder ended by an exception
Raised(e) == Event(e.op \o "_raised", e.arg)

\* C8: the operations of main are a prefix of: query and read of
\* PUB_DIM_FACILITY, PUB_FACTS_SECTOR_GHG_EMISSION, PUB_DIM_SECTOR,
\* PUB_DIM_SUBSECTOR, PUB_DIM_GHG (each once, each read on the unfiltered URL
\* of its table), then the merges 1 to 4, then the subset, then the print; an
\* operation that raises is the last one.
C8_StrictOrder ==
    /\ Len(log) <= Len(RunOrder)
    /\ \A i \in DOMAIN log :
          \/ log[i] = RunOrder[i]
          \/ i = Len(log) /\ pc = "error" /\ log[i] = Raised(RunOrder[i])
    /\ pc = "read" =>
          /\ call = Some([table_name |-> table_names[idx], args |-> DefaultArgs])
          /\ query = Some(RunOrder[2 * idx].arg)
    /\ pc \in Range(MergePcs) => AllFetched
    /\ pc = "done" => log = RunOrder

C8_Witness ==
    /\ pc = "done"
    /\ log = RunOrder
    /\ Len(stdout) = 1

FacilityEmissionPairs ==
    (DOMAIN epa_dfs["PUB_DIM_FACILITY"].rows)
        \X (DOMAIN epa_dfs["PUB_FACTS_SECTOR_GHG_EMISSION"].rows)

AgreeOn(p, k) ==
    epa_dfs["PUB_DIM_FACILITY"].rows[p[1]][Merge1LeftOn[k]]
        = epa_dfs["PUB_FACTS_SECTOR_GHG_EMISSION"].rows[p[2]][Merge1RightOn[k]]

PairRow(p) ==
    epa_dfs["PUB_DIM_FACILITY"].rows[p[1]]
        @@ epa_dfs["PUB_FACTS_SECTOR_GHG_EMISSION"].rows[p[2]]

Count(df, r) == Cardinality({k \in DOMAIN df.rows : df.rows[k] = r})

SameRows(a, b) ==
    /\ Range(a.rows) = Range(b.rows)
    /\ \A r \in Range(a.rows) : Count(a, r) = Count(b, r)

\* C10: each merge of main gives the same rows (each as many times) when its
\* left and right tables, with their key columns, are exchanged; only the
\* order of the columns differs.
C10_MergeCommutes ==
    [][\A k \in 1..4 :
          (pc = MergePcs[k] /\ pc' = AfterMerge[k]) =>
              LET swapped == Merge(RightOf(k), LeftOf(k), RightOnOf(k), LeftOnOf(k))
              IN  /\ SameRows(master_df', swapped)
                  /\ master_df'.cols = LeftOf(k).cols \o RightOf(k).cols
                  /\ swapped.cols = RightOf(k).cols \o LeftOf(k).cols]_vars

\* the fourth merge kept some rows and dropped others
C10_Witness ==
    /\ pc = "subset"
    /\ master_df.rows # <<>>
    /\ Len(master_df.rows) < Len(epa_dfs["PUB_FACTS_SECTOR_GHG_EMISSION"].rows)
    /\ SameRows(master_df,
                Merge(epa_dfs["PUB_DIM_GHG"],
                      Merge(Merge(Merge(epa_dfs["PUB_DIM_FACILITY"],
                                        epa_dfs["PUB_FACTS_SECTOR_GHG_EMISSION"],
                                        Merge1LeftOn, Merge1RightOn),
                                  epa_dfs["PUB_DIM_SECTOR"], Merge2LeftOn, Merge2RightOn),
                            epa_dfs["PUB_DIM_SUBSECTOR"], Merge3LeftOn, Merge3RightOn),
                      Merge4RightOn, Merge4LeftOn))

(***************************************************************************)
(* Properties of construct_query_URL (checked under SpecURL)               *)
(***************************************************************************)
\* the positions at which seg occurs in s as a substring
Occurrences(seg, s) ==
    {p \in 1..(Len(s) - Len(seg) + 1) : SubSeq(s, p, p + Len(seg) - 1) = seg}

FilterKeywords == <<"state_abbr", "county_name", "zip_code", "reporting_year">>

FilterValue(args, k) ==
    CASE k = 1 -> args.desired_state
      [] k = 2 -> args.desired_county
      [] k = 3 -> args.desired_area_code
      [] k = 4 -> args.desired_year

FilterSegment(args, k) == FilterKeywords[k] \o "/" \o FilterValue(args, k).val \o "/"

GivenFilters(args) == {k \in 1..4 : FilterValue(args, k).given}

\* every given segment occurs exactly once, and the given segments are in the
\* order state, county, area code, year
SegmentsOnceInOrder(args, q) ==
    /\ \A k \in GivenFilters(args) :
          Cardinality(Occurrences(FilterSegment(args, k), q)) = 1
    /\ \A j, k \in GivenFilters(args) :
          j < k => \A pj \in Occurrences(FilterSegment(args, j), q),
                      pk \in Occurrences(FilterSegment(args, k), q) : pj < pk

TemplateWords == {"state_abbr", "county_name", "zip_code", "reporting_year", "CSV"}

\* a value that holds no "/" and is none of the words of the URL template
Plain(v) == Occurrences("/", v) = {} /\ v \notin TemplateWords

PlainCall(c) ==
    /\ Plain(c.table_name)
    /\ \A k \in GivenFilters(c.args) : Plain(FilterValue(c.args, k).val)
    /\ c.args.rows_to_include.given => Plain(c.args.rows_to_include.val)

OhioCall ==
    Some([table_name |-> "T",
          args |-> Args(Some("OH"), None, None, Some("2019"), None)])

\* C1 as stated: for every input of construct_query_URL, each given filter
\* segment occurs exactly once in the returned path and the given segments are
\* in the order state, county, area code, year; table T with state OH and
\* year 2019 gives https://data.epa.gov/efservice/T/state_abbr/OH/reporting_year/2019/CSV.
C1_AsStated ==
    (pc = "api" /\ call # None) =>
        /\ SegmentsOnceInOrder(call.val.args, query.val)
        /\ call = OhioCall =>
              query.val = "https://data.epa.gov/efservice/T/state_abbr/OH/reporting_year/2019/CSV"

\* C1 amended: the same, for calls whose table name and given values hold no
\* "/" and are none of the template words state_abbr, county_name, zip_code,
\* reporting_year, CSV (values are inserted verbatim, so a value that holds a
\* segment of the template repeats it).
C1_SegmentsOnceInOrder ==
    (pc = "api" /\ call # None /\ PlainCall(call.val)) =>
        /\ SegmentsOnceInOrder(call.val.args, query.val)
        /\ call = OhioCall =>
              query.val = "https://data.epa.gov/efservice/T/state_abbr/OH/reporting_year/2019/CSV"

C1_Witness ==
    /\ pc = "api"
    /\ call = OhioCall
    /\ query = Some("https://data.epa.gov/efservice/T/state_abbr/OH/reporting_year/2019/CSV")

\* the part of the path a filter contributes
FilterPart(args, k) == IF FilterValue(args, k).given THEN FilterSegment(args, k) ELSE ""

RowsPart(args) ==
    IF args.rows_to_include.given THEN "/rows/" \o args.rows_to_include.val ELSE ""

\* C2: the returned path is the base URL, then <table_name>/, then the
\* segments of the given filters only, then CSV, then /rows/<row_range> if and
\* only if a row range is given; with no parameter given it is exactly
\* https://data.epa.gov/efservice/<table_name>/CSV.
C2_ExactPath ==
    (pc = "api" /\ call # None) =>
        LET a == call.val.args
            t == call.val.table_name
            q == query.val
        IN  /\ q = "https://data.epa.gov/efservice/" \o t \o "/"
                   \o FilterPart(a, 1) \o FilterPart(a, 2) \o FilterPart(a, 3)
                   \o FilterPart(a, 4) \o "CSV" \o RowsPart(a)
            /\ a.rows_to_include.given =>
                  SubSeq(q, Len(q) - Len(RowsPart(a)) - 2, Len(q)) = "CSV" \o RowsPart(a)
            /\ ~a.rows_to_include.given => SubSeq(q, Len(q) - 2, Len(q)) = "CSV"
            /\ (a = DefaultArgs /\ t = "PUB_DIM_GHG") =>
                  q = "https://data.epa.gov/efservice/PUB_DIM_GHG/CSV"
            /\ (a = DefaultArgs /\ t = "T") => q = "https://data.epa.gov/efservice/T/CSV"

C2_Witness ==
    /\ pc = "api"
    /\ call = Some([table_name |-> "T",
                    args |-> Args(None, Some("X"), None, Some("2019"), Some("1:19"))])
    /\ query = Some("https://data.epa.gov/efservice/T/county_name/X/reporting_year/2019/CSV/rows/1:19")

\* the no-parameter case of C2 is reached as well
C2_WitnessNoFilter ==
    /\ pc = "api"
    /\ call = Some([table_name |-> "PUB_DIM_GHG", args |-> DefaultArgs])
    /\ query = Some("https://data.epa.gov/efservice/PUB_DIM_GHG/CSV")

====
